---- MODULE Spec2Model ----
(***************************************************************************)
(* A model of aws-ssh-config.py: one run of main() over an EC2 inventory,  *)
(* and the host-alias derivation generate_host_name as a function of its   *)
(* inputs.                                                                  *)
(*                                                                          *)
(* Python strings are sequences of one-character strings.  None and '' are *)
(* both the empty sequence wherever the program only tests the value's     *)
(* truthiness (addresses, profile, region, proxy name, user, key name,     *)
(* prefix) or compares it with a non-empty literal (platform).             *)
(***************************************************************************)
EXTENDS Integers, Sequences, FiniteSets, TLC

VARIABLES
    pc,                 \* position of main()
    exc,                \* the uncaught exception that ended the run, or "none"
    out,                \* lines printed to standard output
    inventory,          \* the provider's instances, in the provider's order
    profile,            \* main: profile
    region,             \* main: region
    hostname_tags,      \* main: arguments.tags
    instances,          \* main: instances
    proxy_server_name,  \* main: proxy_server_name
    proxy_server,       \* main: proxy_server (<<>> is None, <<inst>> an instance)
    proxy_host_name,    \* main: proxy_host_name (<<>> is unbound, <<s>> bound to s)
    opts,               \* main: the locals of lines 262-287
    idx,                \* main: how many instances the loop of line 299 has passed
    alias_args,         \* the arguments of one call of generate_host_name
    alias_result        \* what that call computed

vars == <<pc, exc, out, inventory, profile, region, hostname_tags, instances,
          proxy_server_name, proxy_server, proxy_host_name, opts, idx,
          alias_args, alias_result>>

main_vars == <<pc, exc, out, inventory, profile, region, hostname_tags, instances,
               proxy_server_name, proxy_server, proxy_host_name, opts, idx>>

alias_vars == <<alias_args, alias_result>>

\* ------------------------------------------------------------------ bounds

\* Longest tag value drawn for a call of generate_host_name.
MaxLen == 4

\* Most instances the provider holds in one run.
MaxInstances == 2

\* ----------------------------------------------------------------- strings

Digits == {"0", "1", "2", "3", "4", "5", "6", "7", "8", "9"}

UpperCase == <<"A", "B", "C", "D", "E", "F", "G", "H", "I", "J", "K", "L", "M",
               "N", "O", "P", "Q", "R", "S", "T", "U", "V", "W", "X", "Y", "Z">>

LowerCase == <<"a", "b", "c", "d", "e", "f", "g", "h", "i", "j", "k", "l", "m",
               "n", "o", "p", "q", "r", "s", "t", "u", "v", "w", "x", "y", "z">>

\* str.lower() on one character.
lower_char(c) ==
    IF \E k \in 1..26 : UpperCase[k] = c
    THEN LowerCase[CHOOSE k \in 1..26 : UpperCase[k] = c]
    ELSE c

\* str.lower()
lower(s) == [k \in 1..Len(s) |-> lower_char(s[k])]

\* Python truthiness of a string or None.
truthy(s) == s # <<>>

\* old in s
occurs(old, s) ==
    \E k \in 0..(Len(s) - Len(old)) : SubSeq(s, k + 1, k + Len(old)) = old

RECURSIVE str_replace(_, _, _)
\* s.replace(old, new): left to right, occurrences that do not overlap; an empty
\* old matches before every character and at the end.
str_replace(s, old, new) ==
    IF old = <<>>
    THEN IF s = <<>> THEN new
         ELSE new \o <<Head(s)>> \o str_replace(Tail(s), old, new)
    ELSE IF Len(s) < Len(old) THEN s
    ELSE IF SubSeq(s, 1, Len(old)) = old
         THEN new \o str_replace(SubSeq(s, Len(old) + 1, Len(s)), old, new)
         ELSE <<Head(s)>> \o str_replace(Tail(s), old, new)

RECURSIVE split(_, _)
\* s.split(sep) for a one-character sep: always at least one piece.
split(s, sep) ==
    IF \E k \in 1..Len(s) : s[k] = sep
    THEN LET k == CHOOSE j \in 1..Len(s) :
                      s[j] = sep /\ \A m \in 1..(j - 1) : s[m] # sep
         IN <<SubSeq(s, 1, k - 1)>> \o split(SubSeq(s, k + 1, Len(s)), sep)
    ELSE <<s>>

RECURSIVE join(_, _)
\* sep.join(parts)
join(parts, sep) ==
    IF parts = <<>> THEN <<>>
    ELSE IF Len(parts) = 1 THEN parts[1]
    ELSE parts[1] \o sep \o join(Tail(parts), sep)

RECURSIVE rstrip(_, _)
\* s.rstrip(c) for a one-character c
rstrip(s, c) ==
    IF s # <<>> /\ s[Len(s)] = c THEN rstrip(SubSeq(s, 1, Len(s) - 1), c) ELSE s

\* ------------------------------------------------------ generate_host_name

RECURSIVE collapse_runs(_, _)
collapse_runs(s, in_run) ==
    IF s = <<>> THEN <<>>
    ELSE IF Head(s) \in Digits \/ \E k \in 1..26 : LowerCase[k] = Head(s)
         THEN <<Head(s)>> \o collapse_runs(Tail(s), FALSE)
         ELSE (IF in_run THEN <<>> ELSE <<"-">>) \o collapse_runs(Tail(s), TRUE)

dasherize_collapsing(s) == collapse_runs(s, FALSE)

\* inflection.dasherize(word): word.replace('_', '-')
dasherize(s) == str_replace(s, <<"_">>, <<"-">>)

RECURSIVE digit_split_unless_dashed(_, _)
digit_split_unless_dashed(s, prev) ==
    IF s = <<>> THEN <<>>
    ELSE IF Head(s) \in Digits /\ prev \notin Digits /\ prev # "-"
         THEN <<"-", Head(s)>> \o digit_split_unless_dashed(Tail(s), Head(s))
         ELSE <<Head(s)>> \o digit_split_unless_dashed(Tail(s), Head(s))

RECURSIVE digit_split(_, _)
\* re.sub('([0-9]+)', r'-\1', s): prev is the character before s ("" at the
\* start); a digit that does not follow a digit starts a match.
digit_split(s, prev) ==
    IF s = <<>> THEN <<>>
    ELSE IF Head(s) \in Digits /\ prev \notin Digits
         THEN <<"-", Head(s)>> \o digit_split(Tail(s), Head(s))
         ELSE <<Head(s)>> \o digit_split(Tail(s), Head(s))

\* instance.tags is None
NoTags == <<>>

\* get_tag_map(instance)[key]: the value of the last pair with that key.
tag_value(tags, key) ==
    tags[CHOOSE k \in 1..Len(tags) :
             tags[k].Key = key /\ \A m \in (k + 1)..Len(tags) : tags[m].Key # key].Value

has_tag(tags, key) == \E k \in 1..Len(tags) : tags[k].Key = key

\* get_tag_map(instance): iterating None raises TypeError.
get_tag_map_raises(instance) == instance.tags = NoTags

RECURSIVE remove_words(_, _)
\* lines 156-157
remove_words(host_name, remove_list) ==
    IF remove_list = <<>> THEN host_name
    ELSE remove_words(str_replace(host_name, lower(Head(remove_list)), <<>>),
                      Tail(remove_list))

RECURSIVE substitute_words(_, _)
\* lines 158-162, for a list whose every entry holds an '='
substitute_words(host_name, substitution_list) ==
    IF substitution_list = <<>> THEN host_name
    ELSE LET split_sub == split(Head(substitution_list), "=")
         IN substitute_words(
                str_replace(host_name, lower(split_sub[1]), lower(split_sub[2])),
                Tail(substitution_list))

\* What a call that raised leaves behind.
Raised(name) ==
    [exc |-> name, joined |-> <<>>, removed |-> <<>>, substituted |-> <<>>,
     dasherized |-> <<>>, split |-> <<>>, stripped |-> <<>>, host_name |-> <<>>]

generate_host_name_substitute_first(instance, tagnames, substitution_list, remove_list, prefix) ==
    IF get_tag_map_raises(instance) THEN Raised("TypeError")
    ELSE IF \E k \in 1..Len(tagnames) : ~has_tag(instance.tags[1], tagnames[k])
    THEN Raised("KeyError")
    ELSE IF \E k \in 1..Len(substitution_list) :
               Len(split(substitution_list[k], "=")) < 2
    THEN Raised("IndexError")
    ELSE
    LET tag_values_for_host_name ==
            [k \in 1..Len(tagnames) |-> tag_value(instance.tags[1], tagnames[k])]
        joined == lower(join(tag_values_for_host_name, <<"-">>))
        substituted == substitute_words(joined, substitution_list)
        removed == remove_words(substituted, remove_list)
        dasherized == dasherize(removed)
        splitted == digit_split(dasherized, "")
        stripped == rstrip(splitted, "-")
    IN  [exc |-> "none", joined |-> joined, removed |-> removed,
         substituted |-> substituted, dasherized |-> dasherized,
         split |-> splitted, stripped |-> stripped,
         host_name |-> IF truthy(prefix)
                       THEN prefix \o <<"-">> \o stripped
                       ELSE stripped]

\* lines 149-169: the function, with every intermediate value of host_name.
generate_host_name(instance, tagnames, substitution_list, remove_list, prefix) ==
    IF get_tag_map_raises(instance) THEN Raised("TypeError")
    ELSE IF \E k \in 1..Len(tagnames) : ~has_tag(instance.tags[1], tagnames[k])
    THEN Raised("KeyError")
    ELSE
    LET tag_values_for_host_name ==
            [k \in 1..Len(tagnames) |-> tag_value(instance.tags[1], tagnames[k])]
        joined == lower(join(tag_values_for_host_name, <<"-">>))
        removed == remove_words(joined, remove_list)
    IN  IF \E k \in 1..Len(substitution_list) :
               Len(split(substitution_list[k], "=")) < 2
        THEN Raised("IndexError")
        ELSE
        LET substituted == substitute_words(removed, substitution_list)
            dasherized == dasherize(substituted)
            splitted == digit_split(dasherized, "")
            stripped == rstrip(splitted, "-")
        IN  [exc |-> "none", joined |-> joined, removed |-> removed,
             substituted |-> substituted, dasherized |-> dasherized,
             split |-> splitted, stripped |-> stripped,
             host_name |-> IF truthy(prefix)
                           THEN prefix \o <<"-">> \o stripped
                           ELSE stripped]

\* --------------------------------------------------- the inventory fetcher

Name == <<"N", "a", "m", "e">>

Env == <<"E", "n", "v">>

Running == <<"r", "u", "n", "n", "i", "n", "g">>

Stopped == <<"s", "t", "o", "p", "p", "e", "d">>

Windows == <<"w", "i", "n", "d", "o", "w", "s">>

InstanceStateName ==
    <<"i", "n", "s", "t", "a", "n", "c", "e", "-",
      "s", "t", "a", "t", "e", "-", "n", "a", "m", "e">>

TagPrefix == <<"t", "a", "g", ":">>

Tag(key, value) == [Key |-> key, Value |-> value]

Instance(id, state, platform, private, public, tags) ==
    [id |-> id, state |-> state, platform |-> platform,
     private_ip_address |-> private, public_ip_address |-> public, tags |-> tags]

\* The instances a provider may hold: every combination of addresses, a tag
\* missing, no tags at all, a Windows and a stopped instance.
Fleet ==
    { Instance(<<"i", "1">>, Running, <<>>, <<"1", "0">>, <<"5", "4">>,
               << <<Tag(Name, <<"b">>), Tag(Env, <<"p">>)>> >>),
      Instance(<<"i", "2">>, Running, <<>>, <<"1", "1">>, <<>>,
               << <<Tag(Name, <<"W", "2">>), Tag(Env, <<"p">>)>> >>),
      Instance(<<"i", "3">>, Running, <<>>, <<>>, <<"5", "5">>,
               << <<Tag(Env, <<"q">>), Tag(Name, <<"d", "_", "1">>)>> >>),
      Instance(<<"i", "4">>, Running, <<>>, <<>>, <<>>,
               << <<Tag(Name, <<"n">>), Tag(Env, <<"p">>)>> >>),
      Instance(<<"i", "5">>, Running, <<>>, <<"1", "2">>, <<"5", "6">>,
               << <<Tag(Env, <<"p">>)>> >>),
      Instance(<<"i", "6">>, Running, <<>>, <<"1", "3">>, <<"5", "7">>, NoTags),
      Instance(<<"i", "7">>, Running, Windows, <<"1", "4">>, <<"5", "8">>,
               << <<Tag(Name, <<"b">>), Tag(Env, <<"p">>)>> >>),
      Instance(<<"i", "8">>, Stopped, <<>>, <<"1", "5">>, <<>>,
               << <<Tag(Name, <<"b">>), Tag(Env, <<"p">>)>> >>) }

\* What the provider may hold in one run: instance ids are unique.
Inventories ==
    UNION { { s \in [1..n -> Fleet] :
                \A j, k \in 1..n : j # k => s[j].id # s[k].id } :
            n \in 0..MaxInstances }

\* lines 117-121; unpacking fewer than two pieces raises ValueError.
create_dict_of_filters_raises(tag_and_values) ==
    Len(split(tag_and_values, "=")) < 2

create_dict_of_filters(tag_and_values) ==
    LET parts == split(tag_and_values, "=")
    IN  [Name |-> TagPrefix \o parts[1], Values |-> split(parts[2], ",")]

\* One filter of ec2.instances.filter(Filters=...): the state by name, a tag by
\* its key and any of the values.
filter_matches(instance, f) ==
    IF f.Name = InstanceStateName
    THEN \E k \in 1..Len(f.Values) : f.Values[k] = instance.state
    ELSE /\ Len(f.Name) >= Len(TagPrefix)
         /\ SubSeq(f.Name, 1, Len(TagPrefix)) = TagPrefix
         /\ instance.tags # NoTags
         /\ \E t \in 1..Len(instance.tags[1]) :
               /\ instance.tags[1][t].Key =
                      SubSeq(f.Name, Len(TagPrefix) + 1, Len(f.Name))
               /\ \E k \in 1..Len(f.Values) :
                      f.Values[k] = instance.tags[1][t].Value

\* lines 125-130
build_filters(additional_filters) ==
    <<[Name |-> InstanceStateName, Values |-> <<Running>>]>> \o
    [k \in 1..Len(additional_filters) |->
        create_dict_of_filters(additional_filters[k])]

RECURSIVE filter_instances(_, _)
\* lines 131-136: the provider's instances that match every filter and are not
\* Windows, in the provider's order.
filter_instances(ec2, filters) ==
    IF ec2 = <<>> THEN <<>>
    ELSE IF /\ \A k \in 1..Len(filters) : filter_matches(Head(ec2), filters[k])
            /\ Head(ec2).platform # Windows
         THEN <<Head(ec2)>> \o filter_instances(Tail(ec2), filters)
         ELSE filter_instances(Tail(ec2), filters)

RECURSIVE reversed(_)
reversed(list) ==
    IF list = <<>> THEN <<>> ELSE reversed(Tail(list)) \o <<Head(list)>>

retreive_running_linux_instances_reversed(ec2, additional_filters) ==
    reversed(filter_instances(ec2, build_filters(additional_filters)))

\* lines 124-136, for filters that all hold an '='
retreive_running_linux_instances(ec2, additional_filters) ==
    filter_instances(ec2, build_filters(additional_filters))

\* lines 139-142: the first match, or None
retrieve_proxy_server_by_name(ec2, name) ==
    LET name_tag_and_value == <<"N", "a", "m", "e", "=">> \o name
        found == retreive_running_linux_instances(ec2, <<name_tag_and_value>>)
    IN  IF found = <<>> THEN <<>> ELSE <<found[1]>>

\* ------------------------------------------------------ the config renderer

Line(kind, text) == [kind |-> kind, text |-> text]

resolve_ip_address_with_fallback(instance, use_private_ip) ==
    IF use_private_ip /\ truthy(instance.private_ip_address)
    THEN instance.private_ip_address
    ELSE IF truthy(instance.public_ip_address)
    THEN instance.public_ip_address
    ELSE instance.private_ip_address

\* lines 176-182: the address, or <<>> when the else branch is taken
resolve_ip_address(instance, use_private_ip) ==
    IF use_private_ip /\ truthy(instance.private_ip_address)
    THEN instance.private_ip_address
    ELSE IF ~use_private_ip /\ truthy(instance.public_ip_address)
    THEN instance.public_ip_address
    ELSE IF ~use_private_ip /\ truthy(instance.private_ip_address)
    THEN instance.private_ip_address
    ELSE <<>>

\* lines 172-203. The else branch of line 182 names sys, which the module never
\* imports: evaluating it raises NameError before anything is written.
generate_config_entry(instance, use_private_ip, no_identities_only, strict_hostkey_checking, tagnames, substitution_list, remove_list, prefix, proxy) ==
    LET ip_address == resolve_ip_address(instance, use_private_ip)
        named == generate_host_name(instance, tagnames, substitution_list,
                                    remove_list, prefix)
    IN  IF ~truthy(ip_address) THEN [exc |-> "NameError", lines |-> <<>>]
        ELSE IF named.exc # "none" THEN [exc |-> named.exc, lines |-> <<>>]
        ELSE [exc |-> "none",
              lines |->
                (IF truthy(instance.id)
                 THEN <<Line("# ID:", instance.id)>> ELSE <<>>)
                \o <<Line("Host", named.host_name), Line("HostName", ip_address)>>
                \o (IF truthy(proxy)
                    THEN <<Line("Proxycommand ssh", proxy)>> ELSE <<>>)
                \o (IF ~no_identities_only
                    THEN <<Line("IdentitiesOnly yes", <<>>)>> ELSE <<>>)
                \o (IF ~strict_hostkey_checking
                    THEN <<Line("StrictHostKeyChecking no", <<>>),
                           Line("", <<>>)>>
                    ELSE <<>>)]

\* ------------------------------------------------------------------- main

Profiles == {<<>>, <<"p">>, <<"x">>}

\* The profiles of ~/.aws/credentials: boto3.Session raises ProfileNotFound for
\* any other.
ConfiguredProfiles == {<<"p">>}

Regions == {<<>>, <<"r">>}

TagLists == {<<>>, <<Name>>, <<Name, Env>>}

\* --tag-filter values; the last holds no '='.
TagFilterLists ==
    { <<>>,
      << <<"E", "n", "v", "=", "p">> >>,
      << <<"E", "n", "v", "=", "q", ",", "x">> >>,
      << Env >> }

ProxyNames == {<<>>, <<"b">>, <<"z">>}

Users == {<<>>, <<"u">>}

KeyNames == {<<>>, <<"k">>}

DefaultKeyDir == <<"~", "/", ".", "s", "s", "h", "/">>

KeyDirs == {<<>>, DefaultKeyDir}

\* --prefix, --remove and --substitue as given together in one run.
AliasOptions ==
    { [prefix |-> <<>>, remove_list |-> <<>>, substitution_list |-> <<>>],
      [prefix |-> <<"x">>, remove_list |-> << <<"P">> >>,
       substitution_list |-> << <<"b", "=", "j">> >>] }

NoCall ==
    [instance |-> Instance(<<>>, Running, <<>>, <<>>, <<>>, NoTags),
     tagnames |-> <<>>, substitution_list |-> <<>>,
     remove_list |-> <<>>, prefix |-> <<>>]

Init ==
    /\ pc = "profile"
    /\ exc = "none"
    /\ out = <<>>
    /\ inventory = <<>>
    /\ profile = <<>>
    /\ region = <<>>
    /\ hostname_tags = <<>>
    /\ instances = <<>>
    /\ proxy_server_name = <<>>
    /\ proxy_server = <<>>
    /\ proxy_host_name = <<>>
    /\ opts = <<>>
    /\ idx = 0
    /\ alias_args = NoCall
    /\ alias_result = Raised("pending")

\* lines 212-216
CheckProfile ==
    /\ pc = "profile" /\ exc = "none"
    /\ \E p \in Profiles :
          /\ profile' = p
          /\ IF truthy(p)
             THEN out' = out /\ pc' = "region"
             ELSE /\ out' = Append(out, Line("Missing profile", <<>>))
                  /\ pc' = "done"
    /\ UNCHANGED <<exc, inventory, region, hostname_tags, instances,
                   proxy_server_name, proxy_server, proxy_host_name, opts, idx>>
    /\ UNCHANGED alias_vars

\* lines 218-222
CheckRegion ==
    /\ pc = "region" /\ exc = "none"
    /\ \E r \in Regions :
          /\ region' = r
          /\ IF truthy(r)
             THEN out' = out /\ pc' = "tags"
             ELSE /\ out' = Append(out, Line("Missing region", <<>>))
                  /\ pc' = "done"
    /\ UNCHANGED <<exc, inventory, profile, hostname_tags, instances,
                   proxy_server_name, proxy_server, proxy_host_name, opts, idx>>
    /\ UNCHANGED alias_vars

\* lines 224-226 (and 279: the same list names the alias's tags)
CheckTags ==
    /\ pc = "tags" /\ exc = "none"
    /\ \E tl \in TagLists :
          /\ hostname_tags' = tl
          /\ IF tl # <<>>
             THEN out' = out /\ pc' = "session"
             ELSE /\ out' = Append(out,
                               Line("Missing tags to use for HostName", <<>>))
                  /\ pc' = "done"
    /\ UNCHANGED <<exc, inventory, profile, region, instances,
                   proxy_server_name, proxy_server, proxy_host_name, opts, idx>>
    /\ UNCHANGED alias_vars

\* lines 228-234
CreateSession ==
    /\ pc = "session" /\ exc = "none"
    /\ IF profile \in ConfiguredProfiles
       THEN out' = out /\ pc' = "fetch"
       ELSE /\ out' = Append(out, Line("Invalid profile provided:", profile))
            /\ pc' = "done"
    /\ UNCHANGED <<exc, inventory, profile, region, hostname_tags, instances,
                   proxy_server_name, proxy_server, proxy_host_name, opts, idx>>
    /\ UNCHANGED alias_vars

\* lines 236-240: the provider's instances are whatever it holds at the query.
FetchInstances ==
    /\ pc = "fetch" /\ exc = "none"
    /\ \E inv \in Inventories, filters \in TagFilterLists :
          /\ inventory' = inv
          /\ IF \E k \in 1..Len(filters) :
                    create_dict_of_filters_raises(filters[k])
             THEN exc' = "ValueError" /\ instances' = instances /\ pc' = pc
             ELSE /\ instances' = retreive_running_linux_instances(inv, filters)
                  /\ exc' = exc
                  /\ pc' = "proxy"
    /\ UNCHANGED <<out, profile, region, hostname_tags,
                   proxy_server_name, proxy_server, proxy_host_name, opts, idx>>
    /\ UNCHANGED alias_vars

\* lines 242-247
ResolveProxy ==
    /\ pc = "proxy" /\ exc = "none"
    /\ \E n \in ProxyNames :
          /\ proxy_server_name' = n
          /\ proxy_server' = IF truthy(n)
                             THEN retrieve_proxy_server_by_name(inventory, n)
                             ELSE <<>>
    /\ pc' = "proxy_check"
    /\ UNCHANGED <<exc, out, inventory, profile, region, hostname_tags, instances,
                   proxy_host_name, opts, idx>>
    /\ UNCHANGED alias_vars

RECURSIVE list_potential_proxy_servers(_)
\* lines 252-259: one line per instance, until get_tag_map raises.
list_potential_proxy_servers(potential_proxy_servers) ==
    IF potential_proxy_servers = <<>> THEN [exc |-> "none", lines |-> <<>>]
    ELSE LET instance == Head(potential_proxy_servers)
             rest == list_potential_proxy_servers(Tail(potential_proxy_servers))
         IN  IF get_tag_map_raises(instance)
             THEN [exc |-> "TypeError", lines |-> <<>>]
             ELSE [exc |-> rest.exc,
                   lines |->
                     <<IF has_tag(instance.tags[1], Name)
                       THEN Line("  *", tag_value(instance.tags[1], Name))
                       ELSE Line("  * (ERROR retrieving name. Displaying instance id)",
                                 instance.id)>>
                     \o rest.lines]

ReportMissingProxy_NoReturn ==
    /\ pc = "proxy_check" /\ exc = "none"
    /\ truthy(proxy_server_name) /\ proxy_server = <<>>
    /\ out' = Append(out,
                Line("Unable to find proxy server. Servers available are:", <<>>))
    /\ pc' = "header"
    /\ UNCHANGED <<exc, inventory, profile, region, hostname_tags, instances,
                   proxy_server_name, proxy_server, proxy_host_name, opts, idx>>
    /\ UNCHANGED alias_vars

\* lines 249-260
ReportMissingProxy ==
    /\ pc = "proxy_check" /\ exc = "none"
    /\ truthy(proxy_server_name) /\ proxy_server = <<>>
    /\ LET listing == list_potential_proxy_servers(
                          retreive_running_linux_instances(inventory, <<>>))
       IN  /\ out' = Append(out,
                       Line("Unable to find proxy server. Servers available are:",
                            <<>>))
                     \o listing.lines
           /\ exc' = listing.exc
           /\ pc' = IF listing.exc = "none" THEN "done" ELSE pc
    /\ UNCHANGED <<inventory, profile, region, hostname_tags, instances,
                   proxy_server_name, proxy_server, proxy_host_name, opts, idx>>
    /\ UNCHANGED alias_vars

\* line 249, the test failing
ProxyResolved ==
    /\ pc = "proxy_check" /\ exc = "none"
    /\ ~(truthy(proxy_server_name) /\ proxy_server = <<>>)
    /\ pc' = "header"
    /\ UNCHANGED <<exc, out, inventory, profile, region, hostname_tags, instances,
                   proxy_server_name, proxy_server, proxy_host_name, opts, idx>>
    /\ UNCHANGED alias_vars

\* lines 262-287
PrintHeader ==
    /\ pc = "header" /\ exc = "none"
    /\ \E user \in Users, key \in KeyNames, dir \in KeyDirs, a \in AliasOptions,
          private \in BOOLEAN, nio \in BOOLEAN, strict \in BOOLEAN :
          LET keydir == IF truthy(dir) THEN dir ELSE DefaultKeyDir
          IN  /\ out' = out
                   \o (IF truthy(user) THEN <<Line("User", user)>> ELSE <<>>)
                   \o (IF truthy(key)
                       THEN <<Line("IdentityFile", keydir \o key), Line("", <<>>)>>
                       ELSE <<>>)
              /\ opts' = <<[substitution_list |-> a.substitution_list,
                            remove_list |-> a.remove_list,
                            prefix |-> a.prefix,
                            use_private_ip |-> private,
                            no_identities_only |-> nio,
                            strict_hostkey_checking |-> strict]>>
    /\ pc' = "render_proxy"
    /\ UNCHANGED <<exc, inventory, profile, region, hostname_tags, instances,
                   proxy_server_name, proxy_server, proxy_host_name, idx>>
    /\ UNCHANGED alias_vars

\* line 289, the test failing: proxy_host_name stays unbound
SkipProxy ==
    /\ pc = "render_proxy" /\ exc = "none"
    /\ proxy_server = <<>>
    /\ pc' = "loop"
    /\ UNCHANGED <<exc, out, inventory, profile, region, hostname_tags, instances,
                   proxy_server_name, proxy_server, proxy_host_name, opts, idx>>
    /\ UNCHANGED alias_vars

\* lines 289-297
RenderProxy ==
    /\ pc = "render_proxy" /\ exc = "none"
    /\ proxy_server # <<>>
    /\ LET o == opts[1]
           named == generate_host_name(proxy_server[1], hostname_tags,
                        o.substitution_list, o.remove_list, o.prefix)
           entry == generate_config_entry(proxy_server[1], o.use_private_ip,
                        o.no_identities_only, o.strict_hostkey_checking,
                        hostname_tags, o.substitution_list, o.remove_list,
                        o.prefix, <<>>)
       IN  IF named.exc # "none"
           THEN /\ exc' = named.exc
                /\ UNCHANGED <<pc, out, proxy_host_name>>
           ELSE /\ proxy_host_name' = <<named.host_name>>
                /\ exc' = entry.exc
                /\ out' = out \o entry.lines
                /\ pc' = IF entry.exc = "none" THEN "loop" ELSE pc
    /\ UNCHANGED <<inventory, profile, region, hostname_tags, instances,
                   proxy_server_name, proxy_server, opts, idx>>
    /\ UNCHANGED alias_vars

\* lines 299-304, one pass of the loop: reading proxy_host_name while it is
\* unbound raises UnboundLocalError.
RenderInstance ==
    /\ pc = "loop" /\ exc = "none"
    /\ idx < Len(instances)
    /\ IF proxy_host_name = <<>>
       THEN exc' = "UnboundLocalError" /\ UNCHANGED <<out, idx>>
       ELSE LET o == opts[1]
                entry == generate_config_entry(instances[idx + 1],
                             o.use_private_ip, o.no_identities_only,
                             o.strict_hostkey_checking, hostname_tags,
                             o.substitution_list, o.remove_list, o.prefix,
                             proxy_host_name[1])
            IN  /\ exc' = entry.exc
                /\ out' = out \o entry.lines
                /\ idx' = IF entry.exc = "none" THEN idx + 1 ELSE idx
    /\ UNCHANGED <<pc, inventory, profile, region, hostname_tags, instances,
                   proxy_server_name, proxy_server, proxy_host_name, opts>>
    /\ UNCHANGED alias_vars

\* line 299, the list exhausted: main returns
Finish ==
    /\ pc = "loop" /\ exc = "none"
    /\ idx = Len(instances)
    /\ pc' = "done"
    /\ UNCHANGED <<exc, out, inventory, profile, region, hostname_tags, instances,
                   proxy_server_name, proxy_server, proxy_host_name, opts, idx>>
    /\ UNCHANGED alias_vars

Next ==
    \/ CheckProfile
    \/ CheckRegion
    \/ CheckTags
    \/ CreateSession
    \/ FetchInstances
    \/ ResolveProxy
    \/ ReportMissingProxy
    \/ ProxyResolved
    \/ PrintHeader
    \/ SkipProxy
    \/ RenderProxy
    \/ RenderInstance
    \/ Finish

Spec == Init /\ [][Next]_vars

\* ------------------------------------------------------ properties of a run

\* main has returned or an exception has ended it.
Terminated == pc = "done" \/ exc # "none"

\* The loop of line 299 was reached.
InLoop == pc \in {"loop", "done"} /\ opts # <<>>

\* The instance identifiers of the Host blocks of the output, in its order.
block_ids(lines) ==
    LET is_id(l) == l.kind = "# ID:"
        heads == SelectSeq(lines, is_id)
    IN  [j \in 1..Len(heads) |-> heads[j].text]

\* The proxy server's own block was printed (lines 294-297 returned).
ProxyRendered == proxy_server # <<>> /\ InLoop

\* The blocks the loop of line 299 printed.
loop_ids ==
    IF ProxyRendered THEN Tail(block_ids(out)) ELSE block_ids(out)

RenderedInLoop(instance) ==
    \E j \in 1..Len(loop_ids) : loop_ids[j] = instance.id

HasAllTags(instance) ==
    /\ instance.tags # NoTags
    /\ \A k \in 1..Len(hostname_tags) : has_tag(instance.tags[1], hostname_tags[k])

HasNoAddress(instance) ==
    ~truthy(instance.private_ip_address) /\ ~truthy(instance.public_ip_address)

\* The instance whose entry was being generated when the run ended.
Current == IF pc = "render_proxy" THEN proxy_server[1] ELSE instances[idx + 1]

\* Every HostName line carries the address Address gives for the block's
\* instance; a run ended by the else branch of line 182 ended on an instance
\* Address gives none for, and the loop ends so on every such instance.
AddressesFollow(Address(_, _)) ==
    /\ \A j \in 1..Len(out) :
          out[j].kind = "HostName" =>
              /\ j >= 3
              /\ out[j - 2].kind = "# ID:"
              /\ \E k \in 1..Len(inventory) :
                    /\ inventory[k].id = out[j - 2].text
                    /\ out[j].text = Address(inventory[k], opts[1].use_private_ip)
                    /\ truthy(out[j].text)
    /\ exc = "NameError" => ~truthy(Address(Current, opts[1].use_private_ip))
    /\ (pc = "loop" /\ exc \in {"KeyError", "TypeError", "IndexError"}) =>
          truthy(Address(Current, opts[1].use_private_ip))

address_as_claimed(instance, use_private_ip) ==
    IF use_private_ip /\ truthy(instance.private_ip_address)
    THEN instance.private_ip_address
    ELSE IF truthy(instance.public_ip_address)
    THEN instance.public_ip_address
    ELSE instance.private_ip_address

address_by_option(instance, use_private_ip) ==
    IF use_private_ip THEN instance.private_ip_address
    ELSE IF truthy(instance.public_ip_address) THEN instance.public_ip_address
    ELSE instance.private_ip_address

\* C1 as stated: the address is the private one if the option is set and it
\* exists, otherwise the public one if it exists, otherwise the private one; only
\* an instance with neither has no resolvable address.
C1_PublicFallback == AddressesFollow(address_as_claimed)

\* C1 amended: with the private option set the address is the private one, and
\* an instance without a private address has no resolvable address even when it
\* has a public one; with the option unset it is the public address if one
\* exists, otherwise the private one.
C1_AddressByOption == AddressesFollow(address_by_option)

C1_Witness ==
    /\ pc = "loop"
    /\ exc = "NameError"
    /\ opts[1].use_private_ip
    /\ truthy(instances[idx + 1].public_ip_address)
    /\ \E j \in 1..Len(out) : out[j].kind = "HostName"

\* C2: in the render loop an instance lacking a tag required for the alias does
\* not abort the batch: it gets no block, every other fetched instance does.
C2_MissingTagSkipped ==
    (/\ Terminated
     /\ InLoop
     /\ proxy_host_name # <<>>
     /\ \A k \in 1..Len(instances) :
           truthy(resolve_ip_address(instances[k], opts[1].use_private_ip))
     /\ \E k \in 1..Len(instances) : ~HasAllTags(instances[k])) =>
        /\ exc = "none"
        /\ \A k \in 1..Len(instances) :
              RenderedInLoop(instances[k]) <=> HasAllTags(instances[k])

\* C3: in the render loop an instance with no address is skipped and the run
\* continues: it gets no block, every later instance is still rendered.
C3_NoAddressSkipped ==
    (/\ Terminated
     /\ InLoop
     /\ proxy_host_name # <<>>
     /\ \A k \in 1..Len(instances) :
           /\ HasAllTags(instances[k])
           /\ \/ HasNoAddress(instances[k])
              \/ truthy(resolve_ip_address(instances[k], opts[1].use_private_ip))
     /\ \E k \in 1..Len(instances) : HasNoAddress(instances[k])) =>
        /\ exc = "none"
        /\ idx = Len(instances)
        /\ \A k \in 1..Len(instances) :
              RenderedInLoop(instances[k]) <=> ~HasNoAddress(instances[k])

\* C4: a block carries a ProxyCommand line exactly when a proxy server was
\* configured and found, naming the proxy's alias; with no proxy server name
\* every fetched instance with an address and its tags is rendered, without one.
C4_ProxyAliasOptional ==
    /\ \A j \in 1..Len(out) :
          out[j].kind = "Proxycommand ssh" =>
              /\ proxy_server # <<>>
              /\ proxy_host_name = <<out[j].text>>
    /\ (/\ Terminated
        /\ InLoop
        /\ ~truthy(proxy_server_name)
        /\ \A k \in 1..Len(instances) :
              /\ HasAllTags(instances[k])
              /\ truthy(resolve_ip_address(instances[k],
                                           opts[1].use_private_ip))) =>
           /\ exc = "none"
           /\ block_ids(out) = [k \in 1..Len(instances) |-> instances[k].id]

FatalKinds ==
    {"Missing profile", "Missing region", "Missing tags to use for HostName",
     "Invalid profile provided:",
     "Unable to find proxy server. Servers available are:"}

ConfigKinds ==
    {"User", "IdentityFile", "", "# ID:", "Host", "HostName", "Proxycommand ssh",
     "IdentitiesOnly yes", "StrictHostKeyChecking no"}

\* One of the five fatal conditions was met at the check that tests it.
FatalCondition ==
    \/ pc # "profile" /\ ~truthy(profile)
    \/ pc \notin {"profile", "region"} /\ ~truthy(region)
    \/ pc \notin {"profile", "region", "tags"} /\ hostname_tags = <<>>
    \/ pc \notin {"profile", "region", "tags", "session"}
          /\ profile \notin ConfiguredProfiles
    \/ pc \notin {"profile", "region", "tags", "session", "fetch", "proxy",
                  "proxy_check"}
          /\ truthy(proxy_server_name) /\ proxy_server = <<>>

position(id) == CHOOSE k \in 1..Len(inventory) : inventory[k].id = id

\* C9: the proxy server's block, when there is one, comes before every fetched
\* instance's block, and the fetched instances' blocks follow the order of the
\* list the inventory query returned.
C9_OutputFollowsInput ==
    /\ ProxyRendered =>
          /\ block_ids(out) # <<>>
          /\ block_ids(out)[1] = proxy_server[1].id
    /\ Len(loop_ids) <= Len(instances)
    /\ \A j \in 1..Len(loop_ids) : loop_ids[j] = instances[j].id
    /\ \A j, k \in 1..Len(loop_ids) :
          j < k => position(loop_ids[j]) < position(loop_ids[k])
    /\ (pc = "done" /\ InLoop) => Len(loop_ids) = Len(instances)

C9_Witness ==
    /\ pc = "done"
    /\ ProxyRendered
    /\ Len(loop_ids) >= 2
    /\ loop_ids[1] # proxy_server[1].id

\* C10: no instance identifier appears in two Host blocks, and the proxy
\* server's own block never carries a ProxyCommand line naming its own alias.
C10_RenderedOnce ==
    /\ \A j, k \in 1..Len(block_ids(out)) :
          j # k => block_ids(out)[j] # block_ids(out)[k]
    /\ \A j \in 1..Len(out) :
          (/\ out[j].kind = "Proxycommand ssh"
           /\ proxy_server # <<>>
           /\ j >= 4
           /\ out[j - 3] = Line("# ID:", proxy_server[1].id)) =>
              out[j].text # out[j - 2].text

\* ------------------------------------- generate_host_name on its own inputs

AliasAlphabet == {"a", "b", "2", "-", "_", "."}

\* The strings over the alphabet of at most n characters.
Strs(n) == UNION { [1..k -> AliasAlphabet] : k \in 0..n }

Tagged(tags) == Instance(<<"i", "0">>, Running, <<>>, <<>>, <<>>, tags)

Web2Prod ==
    Tagged(<< <<Tag(Name, <<"W", "e", "b", "2">>),
               Tag(Env, <<"p", "r", "o", "d">>)>> >>)

AliasInputs ==
    { [instance |-> Tagged(<< <<Tag(Name, v)>> >>), tagnames |-> <<Name>>,
       substitution_list |-> s, remove_list |-> r, prefix |-> p] :
        v \in Strs(MaxLen),
        s \in {<<>>, << <<"a", "b", "=", "2">> >>, << <<"a", "b">> >>},
        r \in {<<>>, << <<"A", "b">> >>, << <<"A", "b">>, <<"_">> >>},
        p \in {<<>>, <<"x">>} }
    \cup
    { [instance |-> i, tagnames |-> t,
       substitution_list |-> s, remove_list |-> r, prefix |-> p] :
        i \in {Web2Prod, Tagged(<< <<Tag(Name, <<"W", "e", "b", "2">>)>> >>),
               Tagged(NoTags)},
        t \in {<<Name>>, <<Name, Env>>},
        s \in {<<>>, << <<"p", "r", "o", "d", "=",
                          "p", "r", "o", "d", "u", "c", "t", "i", "o", "n">> >>},
        r \in {<<>>, << <<"p", "r", "o", "d">> >>},
        p \in {<<>>, <<"a", "w", "s">>} }

InitAlias ==
    /\ pc = "profile"
    /\ exc = "none"
    /\ out = <<>>
    /\ inventory = <<>>
    /\ profile = <<>>
    /\ region = <<>>
    /\ hostname_tags = <<>>
    /\ instances = <<>>
    /\ proxy_server_name = <<>>
    /\ proxy_server = <<>>
    /\ proxy_host_name = <<>>
    /\ opts = <<>>
    /\ idx = 0
    /\ alias_args \in AliasInputs
    /\ alias_result = Raised("pending")

\* One call of generate_host_name (lines 149-169).
CallGenerateHostName ==
    /\ alias_result.exc = "pending"
    /\ alias_result' = generate_host_name(alias_args.instance, alias_args.tagnames,
                           alias_args.substitution_list, alias_args.remove_list,
                           alias_args.prefix)
    /\ UNCHANGED alias_args
    /\ UNCHANGED main_vars

NextAlias == CallGenerateHostName

SpecAlias == InitAlias /\ [][NextAlias]_vars

Returned == alias_result.exc = "none"

\* The positions of s where a maximal run of digits starts.
run_starts(s) ==
    { p \in 1..Len(s) : s[p] \in Digits /\ (p = 1 \/ s[p - 1] \notin Digits) }

\* o is s with one '-' put immediately before each position of P, nothing else.
dashes_inserted(o, s, P) ==
    /\ Len(o) = Len(s) + Cardinality(P)
    /\ \A p \in 1..Len(s) : o[p + Cardinality({q \in P : q <= p})] = s[p]
    /\ \A p \in P : o[p + Cardinality({q \in P : q < p})] = "-"

\* C6 as stated: the digit-splitting step puts one '-' before every maximal run
\* of digits that is not already preceded by '-', and nothing before a run that
\* is ('web-2' stays 'web-2').
C6_DashUnlessPreceded ==
    Returned =>
        dashes_inserted(alias_result.split, alias_result.dasherized,
            { p \in run_starts(alias_result.dasherized) :
                p = 1 \/ alias_result.dasherized[p - 1] # "-" })

\* C6 amended: the digit-splitting step puts one '-' before every maximal run
\* of digits, whether or not a '-' already precedes it, and changes nothing else
\* ('web2' becomes 'web-2', 'web-2' becomes 'web--2').
C6_DashBeforeEveryRun ==
    Returned =>
        dashes_inserted(alias_result.split, alias_result.dasherized,
                        run_starts(alias_result.dasherized))

C6_Witness ==
    /\ Returned
    /\ alias_result.dasherized = <<"a", "-", "2">>
    /\ alias_result.split = <<"a", "-", "-", "2">>

\* Every substitution's find word is also a word of the removal list.
Shadowed ==
    /\ Len(alias_args.substitution_list) = 1
    /\ Len(split(alias_args.substitution_list[1], "=")) >= 2
    /\ \E j \in 1..Len(alias_args.remove_list) :
          lower(alias_args.remove_list[j]) =
              lower(split(alias_args.substitution_list[1], "=")[1])

RemovalAlone ==
    generate_host_name(alias_args.instance, alias_args.tagnames, <<>>,
                       alias_args.remove_list, alias_args.prefix)

\* C7 as stated: with w in the removal list and w=r the substitution, the
\* substitution finds no w left, for every joined string: the alias is the alias
\* derived with the removal list alone.
C7_SubstitutionFindsNothing ==
    (Returned /\ Shadowed) =>
        /\ alias_result.substituted = alias_result.removed
        /\ alias_result.host_name = RemovalAlone.host_name

\* C7 amended: the substitution w=r is applied to the string the removals left;
\* when that string holds no occurrence of w, the substitution changes nothing
\* and the alias is the alias derived with the removal list alone.  (A removal
\* can leave an occurrence of w behind: 'aabb' without 'ab' is 'ab'.)
C7_SubstitutionAfterRemoval ==
    (/\ Returned
     /\ Shadowed
     /\ ~occurs(lower(split(alias_args.substitution_list[1], "=")[1]),
                alias_result.removed)) =>
        /\ alias_result.substituted = alias_result.removed
        /\ alias_result.host_name = RemovalAlone.host_name

C7_Witness ==
    /\ Returned
    /\ Shadowed
    /\ alias_result.joined = <<"a", "b", "2", "a">>
    /\ alias_result.removed = <<"2", "a">>
    /\ alias_result.host_name = <<"-", "2", "a">>

\* C8 as stated: after the dasherize step the string holds only lowercase
\* letters, digits and single dashes.
C8_OnlySingleDashes ==
    Returned =>
        /\ \A p \in 1..Len(alias_result.dasherized) :
              \/ alias_result.dasherized[p] \in Digits \cup {"-"}
              \/ \E k \in 1..26 : LowerCase[k] = alias_result.dasherized[p]
        /\ \A p \in 1..(Len(alias_result.dasherized) - 1) :
              ~(alias_result.dasherized[p] = "-"
                /\ alias_result.dasherized[p + 1] = "-")

\* C8 amended: the dasherize step replaces every '_' by '-' and leaves every
\* other character, and the length, unchanged: runs are not collapsed and other
\* non-alphanumeric characters stay.
C8_UnderscoresToDashes ==
    Returned =>
        /\ Len(alias_result.dasherized) = Len(alias_result.substituted)
        /\ \A p \in 1..Len(alias_result.substituted) :
              alias_result.dasherized[p] =
                  IF alias_result.substituted[p] = "_" THEN "-"
                  ELSE alias_result.substituted[p]

C8_Witness ==
    /\ Returned
    /\ alias_result.substituted = <<"a", "_", "_", ".">>
    /\ alias_result.dasherized = <<"a", "-", "-", ".">>

====
